---- MODULE Spec2Model ----
(***************************************************************************)
(* Model of library/docker_plugin.py: the Ansible module that reconciles   *)
(* one Docker engine plugin (identified by its alias) against a desired    *)
(* state.  One action is one invocation of the module (main), i.e. one     *)
(* construction of DockerPluginManager, run against a persistent engine.   *)
(*                                                                         *)
(* Strings are sequences of one-character strings, so that the option      *)
(* codec ('%s=%s' formatting, split('=', 1)) is computed, not assumed.     *)
(***************************************************************************)
EXTENDS Integers, Sequences, FiniteSets, TLC

VARIABLES
    engine,      \* the plugin registered under the alias in the Docker engine
    before,      \* the engine's plugin when the last run started
    parameters,  \* the module parameters (and check_mode, diff) of the last run
    rerun,       \* the last run repeats the parameters of a run that returned a Result
    cm,          \* the DockerPluginManager of the last run, with its outcome
    output,      \* what the last run handed to exit_json, if it got there
    codec        \* a dictionary on its way through prepare_options and parse_options

vars == <<engine, before, parameters, rerun, cm, output, codec>>

----------------------------------------------------------------------------
\* Bounds of the model

\* longest plugin_options dictionary a task passes
MaxOpts == 2

\* most gateway calls one run can make (lookup, disable, configure, lookup, enable)
MaxCalls == 5

\* longest dictionary put through the option codec on its own
MaxCodecOpts == 2

----------------------------------------------------------------------------
\* Values

\* Python's None, as a sequence no string of the model is equal to
None == <<"None">>

\* the image reference given as `name`
ImageName == <<"i">>

\* option keys, in the order a dictionary iterates over them, and the values
\* a task may give them
OptKeys == <<<<"a">>, <<"b">>>>
OptVals == {<<"x">>, None}

\* Env lists a plugin image may declare as its default settings
DefaultEnvs == {<<>>, << <<"a", "=", "y">>, <<"b", "=", "x">> >>}

\* no plugin under the alias (lookup raises NotFound, existing_plugin is None)
NoPlugin == [exists |-> FALSE, enabled |-> FALSE, env |-> <<>>]

Plugin(en, env) == [exists |-> TRUE, enabled |-> en, env |-> env]

RECURSIVE DictsOver(_)
\* the dictionaries over the keys OptKeys[i..], each key present or not:
\* <<key, value>> pairs with distinct keys, as items() yields them
DictsOver(i) ==
    IF i > Len(OptKeys) THEN {<<>>}
    ELSE LET rest == DictsOver(i + 1)
         IN  rest \cup {<<<<OptKeys[i], v>>>> \o d : v \in OptVals, d \in rest}

OptionDicts == {d \in DictsOver(1) : Len(d) <= MaxOpts}

----------------------------------------------------------------------------
\* Option codec

\* position of the first "=" of s, 0 when there is none
FirstEq(s) ==
    IF \E i \in DOMAIN s : s[i] = "="
    THEN CHOOSE i \in DOMAIN s : s[i] = "=" /\ \A j \in 1..(i - 1) : s[j] # "="
    ELSE 0

\* x.rsplit('=', 1): the split made at the last "="
rsplit1(s) ==
    IF FirstEq(s) = 0 THEN <<s>>
    ELSE LET last == CHOOSE i \in DOMAIN s : s[i] = "=" /\ \A j \in (i + 1)..Len(s) : s[j] # "="
         IN  <<SubSeq(s, 1, last - 1), SubSeq(s, last + 1, Len(s))>>

\* x.split('=', 1)
split1(s) ==
    IF FirstEq(s) = 0 THEN <<s>>
    ELSE <<SubSeq(s, 1, FirstEq(s) - 1), SubSeq(s, FirstEq(s) + 1, Len(s))>>

prepare_options(options) ==
    [i \in DOMAIN options |->
        options[i][1] \o <<"=">> \o (IF options[i][2] # None THEN options[i][2] ELSE <<>>)]

\* dict() of the (k, v) pairs: a later entry overrides an earlier one with the
\* same key (every entry of an Env list the engine returns has its "=")
parse_options(options_list) ==
    LET keys == {split1(options_list[i])[1] : i \in DOMAIN options_list}
        last(k) == CHOOSE i \in DOMAIN options_list :
                       /\ split1(options_list[i])[1] = k
                       /\ \A j \in DOMAIN options_list :
                              split1(options_list[j])[1] = k => j <= i
    IN  [k \in keys |-> split1(options_list[last(k)])[2]]

\* dict.get(key): None when the key is missing
get(dict, key) == IF key \in DOMAIN dict THEN dict[key] ELSE None

----------------------------------------------------------------------------
\* The Docker engine, as the module's calls see it

\* the engine applies one "NAME=value" entry to the plugin's Env
SetEnv(env, entry) ==
    LET name == split1(entry)[1]
    IN  IF \E i \in DOMAIN env : split1(env[i])[1] = name
        THEN [i \in DOMAIN env |-> IF split1(env[i])[1] = name THEN entry ELSE env[i]]
        ELSE Append(env, entry)

RECURSIVE ConfigureEnv(_, _)
\* the engine applies the entries of a configure call, in order
ConfigureEnv(env, options_list) ==
    IF options_list = <<>> THEN env
    ELSE ConfigureEnv(SetEnv(env, Head(options_list)), Tail(options_list))

----------------------------------------------------------------------------
\* DockerPluginManager.  A manager m is a record:
\*   engine           the engine's plugin, as the calls of this run leave it
\*   existing_plugin  self.existing_plugin, the snapshot the decisions read
\*   changed, actions, has_actions, has_diff     self.results
\*   differences      the DifferenceTracker of present / enable
\*   calls            the gateway calls made so far, in order
\*   install_name     the name passed to plugins.install ("unset" before)
\*   outcome          "running", "fatal" (client.fail), "crash" (uncaught
\*                    exception) or "result" (exit_json)
\*   failed_at        the position in calls of the call that failed (0: none)
\*   configured_on    the engine's plugin when configure was called
\*   stale            a decision has read a field of existing_plugin that was
\*                    not the engine's
\*   failAt           the gateway call of this run the engine fails (0: none)
\*   defaults         the Env the installed image declares
\*   noName           how plugins.install ends when it is given no name

Running(m) == m.outcome = "running"

\* a gateway call is recorded when it is made
Invoke(m, op) == [m EXCEPT !.calls = Append(@, op)]

\* the engine answers the call about to be made with an APIError
GatewayFails(m) == Len(m.calls) + 1 = m.failAt

\* fail, had fail_json returned to its caller instead of exiting
fail_returns(m) == [m EXCEPT !.failed_at = Len(m.calls)]

\* self.client.fail(msg): fail_json exits the process; m has recorded the failed call
fail(m) == [m EXCEPT !.outcome = "fatal", !.failed_at = Len(m.calls)]

\* an exception nothing catches ends the process with a traceback
raise(m) == [m EXCEPT !.outcome = "crash"]

\* "# Set results": the action is logged and changed is set, unless the call failed
SetResults(m, action) ==
    IF ~Running(m) THEN m
    ELSE [m EXCEPT !.actions = Append(@, action), !.changed = TRUE]

\* "# Set results optionnaly"
SetResultsIf(main_action, m, action) ==
    IF main_action THEN SetResults(m, action) ELSE m

\* a decision reads whether existing_plugin is None
inspect_exists(m) ==
    [m EXCEPT !.stale = @ \/ m.existing_plugin.exists # m.engine.exists]

\* a decision reads existing_plugin.enabled
inspect_enabled(m) ==
    [m EXCEPT !.stale = @ \/ ~m.engine.exists
                          \/ m.existing_plugin.enabled # m.engine.enabled]

\* get_existing_plugin falling through to its last line, `return None`
get_existing_plugin_returns_none(m) ==
    IF ~Running(m) THEN m
    ELSE IF GatewayFails(m) THEN fail(Invoke(m, "lookup"))
    ELSE [Invoke(m, "lookup") EXCEPT !.existing_plugin = NoPlugin]

get_existing_plugin(m) ==
    IF ~Running(m) THEN m
    ELSE IF GatewayFails(m) THEN fail(Invoke(m, "lookup"))
    ELSE [Invoke(m, "lookup") EXCEPT !.existing_plugin = m.engine]

\* the loop of has_different_config leaving after its first entry
options_differences_first_only(plugin_options, existing_options, i) ==
    IF i > Len(plugin_options) THEN <<>>
    ELSE IF get(existing_options, plugin_options[i][1]) # plugin_options[i][2]
    THEN <<[name |-> <<"plugin_options", ".">> \o plugin_options[i][1],
            parameter |-> plugin_options[i][2],
            active |-> get(existing_options, plugin_options[i][1])]>>
    ELSE <<>>

RECURSIVE options_differences(_, _, _)
\* the loop of has_different_config over plugin_options.items(), from entry i on
options_differences(plugin_options, existing_options, i) ==
    IF i > Len(plugin_options) THEN <<>>
    ELSE LET key == plugin_options[i][1]
             value == plugin_options[i][2]
             active_value == get(existing_options, key)
             rest == options_differences(plugin_options, existing_options, i + 1)
         IN  IF active_value # value
             THEN <<[name |-> <<"plugin_options", ".">> \o key,
                     parameter |-> value, active |-> active_value]>> \o rest
             ELSE rest

\* the differences has_different_config returns
has_different_config(m, p) ==
    IF p.plugin_options # <<>>
    THEN LET existing_options == parse_options(m.existing_plugin.env)
         IN  IF DOMAIN existing_options = {}
             THEN <<[name |-> <<"plugin_options">>,
                     parameter |-> p.plugin_options, active |-> <<>>]>>
             ELSE options_differences(p.plugin_options, existing_options, 1)
    ELSE <<>>

\* self.dclient.plugins.install(name, alias) and its except clause
plugins_install(m, p) ==
    LET called == [Invoke(m, "install") EXCEPT !.install_name = p.name]
    IN  \* no image reference: the client library or the engine rejects it
        IF p.name = None
        THEN IF m.noName = "fatal" THEN fail(called) ELSE raise(called)
        ELSE IF GatewayFails(m) THEN fail(called)
        ELSE [called EXCEPT !.engine = Plugin(FALSE, m.defaults),
                            !.existing_plugin = Plugin(FALSE, m.defaults)]

\* install_plugin without its test that the plugin is not already installed
install_plugin_always(m, p) ==
    IF ~Running(m) THEN m
    ELSE IF p.check_mode THEN SetResults(m, "Installed")
    ELSE SetResults(plugins_install(m, p), "Installed")

install_plugin(m, p) ==
    IF ~Running(m) THEN m
    ELSE IF ~m.existing_plugin.exists
    THEN IF p.check_mode THEN SetResults(inspect_exists(m), "Installed")
         ELSE SetResults(plugins_install(inspect_exists(m), p), "Installed")
    ELSE inspect_exists(m)

\* self.existing_plugin.remove() and its except clause
plugin_remove(m) ==
    IF GatewayFails(m) THEN fail(Invoke(m, "remove"))
    ELSE [Invoke(m, "remove") EXCEPT !.engine = NoPlugin]

\* remove_plugin without its check-mode test
remove_plugin_unchecked(m, p) ==
    IF ~Running(m) THEN m
    ELSE IF m.existing_plugin.exists
    THEN SetResults(plugin_remove(m), "Removed")
    ELSE m

remove_plugin(m, p) ==
    IF ~Running(m) THEN m
    ELSE IF m.existing_plugin.exists
    THEN IF p.check_mode THEN SetResults(inspect_exists(m), "Removed")
         ELSE SetResults(plugin_remove(inspect_exists(m)), "Removed")
    ELSE inspect_exists(m)

\* self.existing_plugin.enable(1), with the reload it ends with, and its except clause
plugin_enable(m) ==
    IF GatewayFails(m) THEN fail(Invoke(m, "enable"))
    ELSE [Invoke(m, "enable") EXCEPT
              !.engine.enabled = TRUE,
              !.existing_plugin = [m.engine EXCEPT !.enabled = TRUE]]

\* enable_plugin after its first line, without its test that the plugin is
\* not enabled yet
enable_fetched_untested(m, p, main_action) ==
    IF ~Running(m) THEN m
    ELSE IF ~m.existing_plugin.exists THEN raise(m)
    ELSE IF p.check_mode THEN SetResultsIf(main_action, m, "Enabled")
    ELSE SetResultsIf(main_action, plugin_enable(m), "Enabled")

\* enable_plugin after its first line, m holding the re-fetched plugin
enable_fetched(m, p, main_action) ==
    IF ~Running(m) THEN m
    \* None has no attribute `enabled`
    ELSE IF ~m.existing_plugin.exists THEN raise(inspect_exists(m))
    ELSE IF ~m.existing_plugin.enabled
    THEN IF p.check_mode THEN SetResultsIf(main_action, inspect_enabled(m), "Enabled")
         ELSE SetResultsIf(main_action, plugin_enable(inspect_enabled(m)), "Enabled")
    ELSE inspect_enabled(m)

enable_plugin(m, p, main_action) ==
    enable_fetched(get_existing_plugin(m), p, main_action)

\* self.existing_plugin.disable(), with the reload it ends with, and its except clause
plugin_disable(m) ==
    IF GatewayFails(m) THEN fail(Invoke(m, "disable"))
    ELSE [Invoke(m, "disable") EXCEPT
              !.engine.enabled = FALSE,
              !.existing_plugin = [m.engine EXCEPT !.enabled = FALSE]]

\* disable_plugin with its results set outside the tests on the plugin
disable_plugin_dedented(m, p, main_action) ==
    IF ~Running(m) THEN m
    ELSE IF m.existing_plugin.exists /\ m.existing_plugin.enabled /\ ~p.check_mode
    THEN SetResultsIf(main_action, plugin_disable(m), "Disabled")
    ELSE SetResultsIf(main_action, m, "Disabled")

disable_plugin(m, p, main_action) ==
    IF ~Running(m) THEN m
    ELSE IF m.existing_plugin.exists /\ m.existing_plugin.enabled
    THEN IF p.check_mode THEN SetResultsIf(main_action, inspect_enabled(m), "Disabled")
         ELSE SetResultsIf(main_action, plugin_disable(inspect_enabled(m)), "Disabled")
    ELSE IF m.existing_plugin.exists THEN inspect_enabled(m)
    ELSE inspect_exists(m)

\* self.existing_plugin.configure(...) of update_plugin, with the reload it
\* ends with, and its except clause
plugin_configure(m, p) ==
    IF ~Running(m) THEN m
    ELSE IF GatewayFails(m)
    THEN fail([Invoke(m, "configure") EXCEPT !.configured_on = m.engine])
    ELSE [Invoke(m, "configure") EXCEPT
              !.configured_on = m.engine,
              !.engine.env = ConfigureEnv(m.engine.env, prepare_options(p.plugin_options)),
              !.existing_plugin =
                  [m.engine EXCEPT
                      !.env = ConfigureEnv(m.engine.env, prepare_options(p.plugin_options))]]

\* update_plugin without its "Plugin must be disabled to be updated" step
update_plugin_no_disable(m, p) ==
    IF ~Running(m) THEN m
    ELSE IF p.check_mode THEN SetResults(m, "Updated")
    ELSE SetResults(
             IF p.state = "enabled" THEN enable_plugin(plugin_configure(m, p), p, FALSE)
             ELSE plugin_configure(m, p), "Updated")

\* update_plugin calling disable_plugin and enable_plugin with their default
\* main_action=True
update_plugin_main_action(m, p) ==
    IF ~Running(m) THEN m
    ELSE IF p.check_mode THEN SetResults(m, "Updated")
    ELSE IF m.existing_plugin.enabled
    THEN SetResults(
             IF p.state = "enabled"
             THEN enable_plugin(plugin_configure(disable_plugin(m, p, TRUE), p), p, TRUE)
             ELSE plugin_configure(disable_plugin(m, p, TRUE), p), "Updated")
    ELSE SetResults(
             IF p.state = "enabled" THEN enable_plugin(plugin_configure(m, p), p, TRUE)
             ELSE plugin_configure(m, p), "Updated")

\* update_plugin enabling again whenever it had to disable (its unused need_enable)
update_plugin_need_enable(m, p) ==
    IF ~Running(m) THEN m
    ELSE IF p.check_mode THEN SetResults(m, "Updated")
    ELSE IF m.existing_plugin.enabled
    THEN SetResults(
             IF p.state \in {"present", "enabled"}
             THEN enable_plugin(plugin_configure(disable_plugin(m, p, FALSE), p), p, FALSE)
             ELSE plugin_configure(disable_plugin(m, p, FALSE), p), "Updated")
    ELSE SetResults(plugin_configure(m, p), "Updated")

update_plugin(m, p) ==
    IF ~Running(m) THEN m
    ELSE IF p.check_mode THEN SetResults(m, "Updated")
    ELSE LET must_enable == p.state = "enabled"
             disabled == IF m.existing_plugin.enabled
                         THEN disable_plugin(inspect_enabled(m), p, FALSE)
                         ELSE inspect_enabled(m)
         IN  SetResults(
                 IF must_enable THEN enable_plugin(plugin_configure(disabled, p), p, FALSE)
                 ELSE plugin_configure(disabled, p), "Updated")

\* the tail shared by present and enable: the legacy diff and the pop of 'actions'
report(m, p) ==
    IF ~Running(m) THEN m
    ELSE [m EXCEPT !.has_diff = @ \/ p.diff \/ p.check_mode \/ p.debug,
                   !.has_actions = IF ~p.check_mode /\ ~p.debug THEN FALSE ELSE @]

\* the head shared by present and enable: the differences of an existing plugin
differences(m, p) ==
    [m EXCEPT !.differences = IF m.existing_plugin.exists
                              THEN has_different_config(m, p) ELSE <<>>]

\* present, its differences computed
present_with(m, p) ==
    report(IF m.differences # <<>> THEN update_plugin(m, p)
           ELSE install_plugin(m, p), p)

present(m, p) == present_with(differences(m, p), p)

\* absent disabling the plugin before it removes it
absent_disables_first(m, p) == remove_plugin(disable_plugin(m, p, FALSE), p)

absent(m, p) == remove_plugin(m, p)

\* enable, its differences computed, with its enable step taken as an internal
\* one (main_action=False)
enable_not_main_action(m, p) ==
    report(IF m.differences # <<>> THEN update_plugin(m, p)
           ELSE enable_plugin(install_plugin(m, p), p, FALSE), p)

\* enable, its differences computed
enable_with(m, p) ==
    report(IF m.differences # <<>> THEN update_plugin(m, p)
           ELSE enable_plugin(install_plugin(m, p), p, TRUE), p)

enable(m, p) == enable_with(differences(m, p), p)

\* disable calling disable_plugin as an internal step (main_action=False)
disable_not_main_action(m, p) == disable_plugin(m, p, FALSE)

disable(m, p) == disable_plugin(m, p, TRUE)

\* the manager as __init__ sets it up, before the first lookup
NewManager(e, failAt, defaults, noName) ==
    [engine |-> e, existing_plugin |-> NoPlugin,
     changed |-> FALSE, actions |-> <<>>, has_actions |-> TRUE, has_diff |-> FALSE,
     differences |-> <<>>, calls |-> <<>>, install_name |-> <<"unset">>,
     configured_on |-> NoPlugin, failed_at |-> 0, stale |-> FALSE,
     outcome |-> "running", failAt |-> failAt, defaults |-> defaults, noName |-> noName]

\* the dispatch of __init__ with the handlers of absent and disabled exchanged
dispatch_exchanged(m, p) ==
    IF ~Running(m) THEN m
    ELSE IF p.state = "present" THEN present(m, p)
    ELSE IF p.state = "absent" THEN disable(m, p)
    ELSE IF p.state = "enabled" THEN enable(m, p)
    ELSE absent(m, p)

\* the dispatch of __init__ on the target state
dispatch(m, p) ==
    IF ~Running(m) THEN m
    ELSE IF p.state = "present" THEN present(m, p)
    ELSE IF p.state = "absent" THEN absent(m, p)
    ELSE IF p.state = "enabled" THEN enable(m, p)
    ELSE disable(m, p)

\* the end of __init__ (results['diff']), then exit_json(**cm.results)
exit_json(m, p) ==
    IF ~Running(m) THEN m
    ELSE [m EXCEPT !.has_diff = @ \/ p.diff \/ p.check_mode \/ p.debug,
                   !.outcome = "result"]

\* DockerPluginManager(client), then exit_json(**cm.results) when nothing failed
RunModule(e, p, failAt, defaults, noName) ==
    exit_json(dispatch(get_existing_plugin(NewManager(e, failAt, defaults, noName)), p), p)

----------------------------------------------------------------------------
\* The module run against the engine

States == {"present", "absent", "enabled", "disabled"}

\* module.params with client.check_mode and module._diff; required_if makes
\* `name` mandatory for state=present
Params ==
    {p \in [state : States, name : {None, ImageName}, plugin_options : OptionDicts,
            debug : BOOLEAN, check_mode : BOOLEAN, diff : BOOLEAN] :
        p.state = "present" => p.name # None}

InitEngines == {NoPlugin} \cup {Plugin(en, env) : en \in BOOLEAN, env \in DefaultEnvs}

NoResult == [returned |-> FALSE]

\* cm.results as exit_json receives them
Results(m) ==
    [returned |-> TRUE, changed |-> m.changed, has_actions |-> m.has_actions,
     actions |-> IF m.has_actions THEN m.actions ELSE <<>>, has_diff |-> m.has_diff]

\* what the engine does in one run is not part of the manager
EngineInputs == {"engine", "failAt", "defaults", "noName"}

Manager(m) == [f \in DOMAIN m \ EngineInputs |-> m[f]]

Idle == Manager([NewManager(NoPlugin, 0, <<>>, "crash") EXCEPT !.outcome = "none"])

\* the dictionary of an options sequence: its keys with their values
AsDict(options) ==
    [k \in {options[i][1] : i \in DOMAIN options} |->
        options[CHOOSE i \in DOMAIN options : options[i][1] = k][2]]

\* no dictionary is in the codec
NoCodec == [pc |-> "none", options |-> <<>>, options_list |-> <<>>, parsed |-> AsDict(<<>>)]

Init ==
    /\ engine \in InitEngines
    /\ before = engine
    /\ parameters = [state |-> "present", name |-> ImageName, plugin_options |-> <<>>,
                     debug |-> FALSE, check_mode |-> FALSE, diff |-> FALSE]
    /\ rerun = FALSE
    /\ cm = Idle
    /\ output = NoResult
    /\ codec = NoCodec

\* the bookkeeping of a run that is starting
Started(p, repeated) ==
    /\ parameters' = p
    /\ rerun' = repeated
    /\ before' = engine
    /\ cm' = [Idle EXCEPT !.outcome = "started"]
    /\ output' = NoResult
    /\ UNCHANGED <<engine, codec>>

\* main() up to the construction of the manager: a task's parameters are bound
Main ==
    /\ cm.outcome = "none"
    /\ \E p \in Params : Started(p, FALSE)

\* main() again, for the task that has just returned a Result, unchanged
Rerun ==
    /\ cm.outcome = "result"
    /\ Started(parameters, TRUE)

\* the process of the last run is gone (exit_json, fail_json or a traceback);
\* the engine keeps the plugin as the run left it
Exit ==
    /\ cm.outcome \in {"result", "fatal", "crash"}
    /\ cm' = Idle
    /\ before' = engine
    /\ parameters' = [state |-> "present", name |-> ImageName, plugin_options |-> <<>>,
                      debug |-> FALSE, check_mode |-> FALSE, diff |-> FALSE]
    /\ rerun' = FALSE
    /\ output' = NoResult
    /\ UNCHANGED <<engine, codec>>

\* DockerPluginManager(client) and exit_json, for the task's target state
Construct(state) ==
    /\ cm.outcome = "started"
    /\ parameters.state = state
    /\ \E failAt \in 0..MaxCalls, defaults \in DefaultEnvs, noName \in {"fatal", "crash"} :
        \E m \in {RunModule(engine, parameters, failAt, defaults, noName)} :
            /\ engine' = m.engine
            /\ cm' = Manager(m)
            /\ output' = IF m.outcome = "result" THEN Results(m) ELSE NoResult
    /\ UNCHANGED <<before, parameters, rerun, codec>>

Present == Construct("present")

Absent == Construct("absent")

Enable == Construct("enabled")

Disable == Construct("disabled")

Next == Main \/ Rerun \/ Exit \/ Present \/ Absent \/ Enable \/ Disable

Spec == Init /\ [][Next]_vars

----------------------------------------------------------------------------
\* The option codec on its own: a dictionary is encoded, then decoded

\* keys and values of the dictionaries put through the codec
CodecKeys == {<<>>, <<"a">>, <<"b">>, <<"=">>, <<"a", "=">>, <<"a", "=", "b">>}
CodecVals == {<<>>, <<"x">>, <<"=">>, <<"x", "=", "y">>, None}

RECURSIVE CodecDicts(_)
\* the dictionaries of at most n entries: <<key, value>> pairs with distinct
\* keys, in every insertion order
CodecDicts(n) ==
    IF n = 0 THEN {<<>>}
    ELSE LET shorter == CodecDicts(n - 1)
         IN  shorter \cup
             {Append(d, kv) : d \in {e \in shorter : Len(e) = n - 1},
                              kv \in CodecKeys \X CodecVals}

HasDistinctKeys(d) == \A i, j \in DOMAIN d : i < j => d[i][1] # d[j][1]

CodecInit ==
    /\ engine = NoPlugin
    /\ before = NoPlugin
    /\ parameters = [state |-> "present", name |-> ImageName, plugin_options |-> <<>>,
                     debug |-> FALSE, check_mode |-> FALSE, diff |-> FALSE]
    /\ rerun = FALSE
    /\ cm = Idle
    /\ output = NoResult
    /\ \E d \in {e \in CodecDicts(MaxCodecOpts) : HasDistinctKeys(e)} :
           codec = [NoCodec EXCEPT !.pc = "options", !.options = d]

\* prepare_options(options)
Prepare ==
    /\ codec.pc = "options"
    /\ codec' = [codec EXCEPT !.pc = "options_list",
                              !.options_list = prepare_options(codec.options)]
    /\ UNCHANGED <<engine, before, parameters, rerun, cm, output>>

\* parse_options(options_list)
Parse ==
    /\ codec.pc = "options_list"
    /\ codec' = [codec EXCEPT !.pc = "parsed",
                              !.parsed = parse_options(codec.options_list)]
    /\ UNCHANGED <<engine, before, parameters, rerun, cm, output>>

CodecNext == Prepare \/ Parse

CodecSpec == CodecInit /\ [][CodecNext]_vars

----------------------------------------------------------------------------
\* Vocabulary of the properties

\* the last run has ended: with a Result, a fatal error or a traceback
Done == cm.outcome \in {"result", "fatal", "crash"}

\* the mutating gateway calls among calls, in order
Mutating(calls) == SelectSeq(calls, LAMBDA op : op # "lookup")

\* the run of the last task from the same engine state outside check mode,
\* when the engine fails no call
NonCheckRun(defaults, noName) ==
    RunModule(before, [parameters EXCEPT !.check_mode = FALSE], 0, defaults, noName)

\* the value the engine holds for a desired value (None is sent as "")
Sent(value) == IF value # None THEN value ELSE <<>>

\* no desired value is None
NonNull(plugin_options) ==
    \A i \in DOMAIN plugin_options : plugin_options[i][2] # None

\* the last run, for state present or enabled, got past its first lookup
Compared ==
    /\ Done /\ parameters.state \in {"present", "enabled"}
    /\ cm.failed_at # 1

\* the positions of op in calls
Positions(calls, op) == {i \in DOMAIN calls : calls[i] = op}

\* every desired key is in the decoded Env of plugin, with the desired value
ConfigMatches(plugin, plugin_options) ==
    \A i \in DOMAIN plugin_options :
        /\ plugin_options[i][1] \in DOMAIN parse_options(plugin.env)
        /\ parse_options(plugin.env)[plugin_options[i][1]] = plugin_options[i][2]

\* some desired key has another value, or none, in the decoded Env of plugin
ConfigDiffers(plugin, plugin_options) ==
    \E i \in DOMAIN plugin_options :
        get(parse_options(plugin.env), plugin_options[i][1]) # plugin_options[i][2]

----------------------------------------------------------------------------
\* C1: in check mode a run calls nothing but lookup, whatever the target
\* state, the engine state and the desired configuration, so the engine's
\* plugin after the run is the plugin before the run.
C1_CheckModeCallsOnlyLookup ==
    (Done /\ parameters.check_mode) =>
        /\ \A i \in DOMAIN cm.calls : cm.calls[i] = "lookup"
        /\ engine = before

\* a check-mode run that reports a change it did not make
C1_Witness ==
    /\ Done /\ parameters.check_mode
    /\ output.returned /\ output.changed
    /\ parameters.state = "absent" /\ before.exists

\* C2: for a run that returns a Result, changed is true exactly when a
\* mutating gateway call was made, or, in check mode, when the same run
\* outside check mode makes one.
C2_ChangedIffMutatingCall ==
    output.returned =>
        IF parameters.check_mode
        THEN \A d \in DefaultEnvs, n \in {"fatal", "crash"} :
                 output.changed <=> (Mutating(NonCheckRun(d, n).calls) # <<>>)
        ELSE output.changed <=> (Mutating(cm.calls) # <<>>)

\* a run that made two internal mutating calls and one that made none
C2_Witness ==
    /\ output.returned /\ ~parameters.check_mode /\ output.changed
    /\ Len(Mutating(cm.calls)) = 3

\* C3: a check-mode run the engine fails no call of returns a Result, whose
\* changed flag and number of logged actions are those of the run outside
\* check mode from the same engine state with the same parameters.
C3_CheckModeReportsLikeRealRun ==
    (Done /\ parameters.check_mode /\ cm.failed_at = 0) =>
        /\ output.returned
        /\ \A d \in DefaultEnvs, n \in {"fatal", "crash"} :
               \A real \in {NonCheckRun(d, n)} :
                   real.outcome = "result" =>
                       /\ output.changed = real.changed
                       /\ Len(cm.actions) = Len(real.actions)

\* C4: a run that repeats, right after it, a run outside check mode that
\* returned a Result, with the same parameters and no null option value,
\* reports changed=false and makes no mutating call.
C4_RepeatedRunChangesNothing ==
    (rerun /\ output.returned /\ ~parameters.check_mode
       /\ \A i \in DOMAIN parameters.plugin_options : parameters.plugin_options[i][2] # None) =>
        /\ ~output.changed
        /\ Mutating(cm.calls) = <<>>

\* C5: a run for state=enabled outside check mode that returns a Result leaves
\* the plugin installed and enabled, every desired key holding its desired value.
C5_EnabledConverges ==
    (output.returned /\ parameters.state = "enabled" /\ ~parameters.check_mode) =>
        /\ engine.exists /\ engine.enabled
        /\ \A i \in DOMAIN parameters.plugin_options :
               get(parse_options(engine.env), parameters.plugin_options[i][1])
                   = Sent(parameters.plugin_options[i][2])

\* C6: a gateway call that fails is the last call of the run, which ends in
\* the fatal outcome and returns no Result.
C6_FailureAbortsRun ==
    /\ cm.failed_at # 0 =>
           /\ cm.outcome = "fatal"
           /\ cm.failed_at = Len(cm.calls)
           /\ ~output.returned
    /\ cm.outcome = "fatal" => cm.failed_at # 0

\* the configure call of an update failed after the disable call succeeded
C6_Witness ==
    /\ cm.outcome = "fatal"
    /\ cm.calls = <<"lookup", "disable", "configure">>
    /\ cm.failed_at = 3
    /\ ~engine.enabled /\ before.enabled

\* C7: state=present, outside check mode, on an enabled plugin some desired
\* key of which has another live value: the run calls disable then configure
\* and nothing else mutating, logs the one "Updated" action, reports
\* changed=true and leaves the plugin disabled.
C7_PresentUpdatesWithoutReenable ==
    (output.returned /\ parameters.state = "present" /\ ~parameters.check_mode
       /\ before.exists /\ before.enabled
       /\ ConfigDiffers(before, parameters.plugin_options)) =>
        /\ Mutating(cm.calls) = <<"disable", "configure">>
        /\ cm.actions = <<"Updated">>
        /\ output.changed
        /\ engine.exists /\ ~engine.enabled

\* live a=y, desired a=x
C7_Witness ==
    /\ output.returned /\ parameters.state = "present" /\ ~parameters.check_mode
    /\ before = Plugin(TRUE, << <<"a", "=", "y">>, <<"b", "=", "x">> >>)
    /\ parameters.plugin_options = << <<<<"a">>, <<"x">>>> >>
    /\ engine = Plugin(FALSE, << <<"a", "=", "x">>, <<"b", "=", "x">> >>)

\* C8: state=enabled with a name, outside check mode, no plugin under the
\* alias: the run calls install then enable, once each, logs the install
\* action then the enable action and reports changed=true.
C8_EnabledInstallsThenEnables ==
    (output.returned /\ parameters.state = "enabled" /\ ~parameters.check_mode
       /\ ~before.exists /\ parameters.name # None) =>
        /\ Mutating(cm.calls) = <<"install", "enable">>
        /\ cm.actions = <<"Installed", "Enabled">>
        /\ output.changed

C8_Witness ==
    /\ output.returned /\ parameters.state = "enabled" /\ ~parameters.check_mode
    /\ ~before.exists /\ parameters.name = ImageName
    /\ engine.exists /\ engine.enabled
    /\ cm.calls = <<"lookup", "install", "lookup", "enable">>

\* C9: state=present with a name, for a run that returns a Result: with no
\* plugin under the alias, changed=true whatever the desired configuration and,
\* outside check mode, install is the one mutating call; with a plugin under
\* the alias, install is never called.
C9_PresentInstallsOnlyWhenAbsent ==
    (output.returned /\ parameters.state = "present" /\ parameters.name # None) =>
        /\ ~before.exists =>
               /\ output.changed
               /\ ~parameters.check_mode => Mutating(cm.calls) = <<"install">>
        /\ before.exists => \A i \in DOMAIN cm.calls : cm.calls[i] # "install"

\* a plugin installed by present, with options the install does not look at
C9_Witness ==
    /\ output.returned /\ parameters.state = "present" /\ ~parameters.check_mode
    /\ ~before.exists /\ parameters.plugin_options # <<>>
    /\ engine.exists /\ cm.install_name = ImageName

\* C10: state=absent, for a run that returns a Result: with a plugin under the
\* alias, enabled or not, changed=true and, outside check mode, remove is the
\* one mutating call; with no plugin, no mutating call and changed=false.
C10_AbsentRemovesOnlyWhenPresent ==
    (output.returned /\ parameters.state = "absent") =>
        /\ before.exists =>
               /\ output.changed
               /\ ~parameters.check_mode => Mutating(cm.calls) = <<"remove">>
        /\ ~before.exists =>
               /\ ~output.changed
               /\ Mutating(cm.calls) = <<>>

\* an enabled plugin removed
C10_Witness ==
    /\ output.returned /\ parameters.state = "absent" /\ ~parameters.check_mode
    /\ before.exists /\ before.enabled /\ ~engine.exists

\* C11: a run for state=disabled calls nothing but lookup and disable; when it
\* returns a Result: with no plugin, or a disabled one, nothing is logged or
\* changed; with an enabled plugin, one action is logged, changed=true and,
\* outside check mode, disable is called once and leaves the plugin installed
\* and disabled.
C11_DisabledOnlyDisables ==
    (Done /\ parameters.state = "disabled") =>
        /\ \A i \in DOMAIN cm.calls : cm.calls[i] \in {"lookup", "disable"}
        /\ (output.returned /\ ~(before.exists /\ before.enabled)) =>
               /\ ~output.changed
               /\ cm.actions = <<>>
               /\ Mutating(cm.calls) = <<>>
               /\ engine = before
        /\ (output.returned /\ before.exists /\ before.enabled) =>
               /\ output.changed
               /\ cm.actions = <<"Disabled">>
               /\ ~parameters.check_mode =>
                      /\ Mutating(cm.calls) = <<"disable">>
                      /\ engine = Plugin(FALSE, before.env)

\* an enabled plugin disabled, its Env kept
C11_Witness ==
    /\ output.returned /\ parameters.state = "disabled" /\ ~parameters.check_mode
    /\ before.exists /\ before.enabled /\ before.env # <<>>
    /\ engine = Plugin(FALSE, before.env)
    /\ cm.calls = <<"lookup", "disable">>

\* C12 as stated: state=enabled on an enabled plugin whose Env has every
\* desired key at its desired value: the run that returns a Result has made
\* no gateway call after its first lookup, and changed=false.
C12_NoCallAfterFirstLookup ==
    (output.returned /\ parameters.state = "enabled"
       /\ before.exists /\ before.enabled
       /\ ConfigMatches(before, parameters.plugin_options)) =>
        /\ cm.calls = <<"lookup">>
        /\ ~output.changed

\* C12 as amended: such a run makes no mutating call; it looks the plugin up
\* a second time (the first line of enable_plugin), logs nothing, reports
\* changed=false and leaves the plugin as it was.
C12_OnlyLookupsWhenConverged ==
    (output.returned /\ parameters.state = "enabled"
       /\ before.exists /\ before.enabled
       /\ ConfigMatches(before, parameters.plugin_options)) =>
        /\ cm.calls = <<"lookup", "lookup">>
        /\ ~output.changed
        /\ cm.actions = <<>>
        /\ engine = before

\* an enabled plugin with a=y, b=x and the desired option b=x
C12_Witness ==
    /\ output.returned /\ parameters.state = "enabled" /\ ~parameters.check_mode
    /\ before = Plugin(TRUE, << <<"a", "=", "y">>, <<"b", "=", "x">> >>)
    /\ parameters.plugin_options = << <<<<"b">>, <<"x">>>> >>
    /\ cm.calls = <<"lookup", "lookup">>
    /\ ~output.changed

\* C13 as stated: the Result carries `actions` exactly when the run was in
\* check mode, or debug was set, or a diff was requested.
C13_ActionsIffCheckDebugDiff ==
    output.returned =>
        (output.has_actions <=>
            (parameters.check_mode \/ parameters.debug \/ parameters.diff))

\* C15: when configure is called, the engine holds the plugin, disabled; if
\* the plugin was enabled when the run started, a disable call precedes the
\* configure call.
C15_ConfigureOnDisabledPlugin ==
    \A i \in Positions(cm.calls, "configure") :
        /\ cm.configured_on.exists
        /\ ~cm.configured_on.enabled
        /\ before.exists
        /\ before.enabled => \E j \in Positions(cm.calls, "disable") : j < i

\* a configure call on a plugin the run had to disable first
C15_Witness ==
    /\ Done /\ before.exists /\ before.enabled
    /\ Positions(cm.calls, "configure") = {3}
    /\ Positions(cm.calls, "disable") = {2}
    /\ cm.configured_on = Plugin(FALSE, before.env)

\* C17: when the update path has run (state present or enabled, plugin under
\* the alias, differences not empty) and the run returns a Result, the action
\* log is the one "Updated" action and changed=true, whichever of the internal
\* disable and enable steps ran.
C17_UpdateLogsOneAction ==
    (output.returned /\ parameters.state \in {"present", "enabled"}
       /\ before.exists /\ cm.differences # <<>>) =>
        /\ cm.actions = <<"Updated">>
        /\ output.changed

\* an update that disabled and enabled again, with one action logged
C17_Witness ==
    /\ output.returned /\ parameters.state = "enabled" /\ ~parameters.check_mode
    /\ before.exists /\ before.enabled /\ cm.differences # <<>>
    /\ Mutating(cm.calls) = <<"disable", "configure", "enable">>
    /\ cm.actions = <<"Updated">>

\* C19 as stated: every install call carries a name.
C19_InstallHasName ==
    Positions(cm.calls, "install") # {} => cm.install_name # None

\* C20: the mutating calls of a run are among those of its target state
\* (absent: remove; disabled: disable; present: install, disable, configure;
\* enabled: install, disable, configure, enable), each made at most once.
C20_CallsFixedByTargetState ==
    Done =>
        /\ \A i \in DOMAIN Mutating(cm.calls) :
               Mutating(cm.calls)[i] \in
                   CASE parameters.state = "absent" -> {"remove"}
                     [] parameters.state = "disabled" -> {"disable"}
                     [] parameters.state = "present" -> {"install", "disable", "configure"}
                     [] parameters.state = "enabled" ->
                            {"install", "disable", "configure", "enable"}
        /\ \A op \in {"install", "remove", "enable", "disable", "configure"} :
               Cardinality(Positions(cm.calls, op)) <= 1

\* state=absent removing a plugin, the one call that only absent makes
C20_Witness ==
    /\ Done /\ parameters.state = "absent"
    /\ Mutating(cm.calls) = <<"remove">>
    /\ before.exists /\ ~engine.exists

\* C16: whenever install_plugin, remove_plugin, enable_plugin, disable_plugin
\* or update_plugin reads the existence or the enabled field of the snapshot,
\* the field has the value the engine holds at that moment.
C16_SnapshotFreshWhenInspected == ~cm.stale

\* a run whose enable step read the snapshot after disable and configure calls
C16_Witness ==
    /\ output.returned /\ parameters.state = "enabled"
    /\ cm.calls = <<"lookup", "disable", "configure", "lookup", "enable">>
    /\ before.enabled /\ engine.enabled /\ engine.env # before.env
    /\ cm.existing_plugin = engine

\* C18 as stated: for a plugin under the alias, the differences are empty
\* exactly when every desired key has its desired value in the decoded Env;
\* the update path is taken exactly when they are not empty, and never when
\* only the existence differs.
C18_DifferencesIffKeyMismatch ==
    Compared =>
        /\ before.exists =>
               (cm.differences = <<>>
                    <=> ConfigMatches(before, parameters.plugin_options))
        /\ ~before.exists => cm.differences = <<>>
        /\ output.returned =>
               ((\E i \in DOMAIN cm.actions : cm.actions[i] = "Updated")
                    <=> cm.differences # <<>>)

\* C18 as amended: the same, for a desired configuration with no null value.
C18_DifferencesIffKeyMismatchNonNull ==
    (Compared /\ NonNull(parameters.plugin_options)) =>
        /\ before.exists =>
               (cm.differences = <<>>
                    <=> ConfigMatches(before, parameters.plugin_options))
        /\ ~before.exists => cm.differences = <<>>
        /\ output.returned =>
               ((\E i \in DOMAIN cm.actions : cm.actions[i] = "Updated")
                    <=> cm.differences # <<>>)

\* desired b=x against the Env a=y, b=x: no difference, the live key a ignored
C18_Witness ==
    /\ output.returned /\ parameters.state = "present"
    /\ before.exists /\ before.env = << <<"a", "=", "y">>, <<"b", "=", "x">> >>
    /\ parameters.plugin_options = << <<<<"b">>, <<"x">>>> >>
    /\ cm.differences = <<>>
    /\ cm.actions = <<>>

\* C14 as stated: a dictionary with string keys and non-null string values
\* comes back from parse_options(prepare_options(m)) as it went in.
C14_RoundTrip ==
    (codec.pc = "parsed" /\ NonNull(codec.options)) =>
        codec.parsed = AsDict(codec.options)

\* C14 as amended: it does when, moreover, no key contains "="; the encoded
\* list has one entry for each key.
C14_RoundTripKeysWithoutEq ==
    (codec.pc = "parsed" /\ NonNull(codec.options)
       /\ \A i \in DOMAIN codec.options : FirstEq(codec.options[i][1]) = 0) =>
        /\ codec.parsed = AsDict(codec.options)
        /\ Len(codec.options_list) = Len(codec.options)

\* two keys, one empty, with values that contain "=", decoded as they were
C14_Witness ==
    /\ codec.pc = "parsed"
    /\ codec.options = << <<<<"a">>, <<"x", "=", "y">>>>, <<<<>>, <<"=">>>> >>
    /\ codec.options_list = << <<"a", "=", "x", "=", "y">>, <<"=", "=">> >>
    /\ codec.parsed = AsDict(codec.options)

====
